---- MODULE Spec2Model ----
(***************************************************************************)
(* Model of src/ocr_engine.py: PDF-to-text extraction with an OCR fallback *)
(* for scanned pages.  process_input walks a directory listing (or a       *)
(* single file) and calls extract_text_from_pdf per document, which opens  *)
(* the document, walks its pages, classifies each page with                *)
(* is_scanned_page, extracts it natively or through ocr_image, joins the   *)
(* page texts and writes the output file.                                  *)
(*                                                                         *)
(* Texts, file names and paths are sequences of one-character strings.     *)
(***************************************************************************)
EXTENDS Integers, Sequences, FiniteSets, TLC

VARIABLES
    \* ---- the environment the program runs against (never changed by it)
    input_path,     \* process_input's input_path
    input_kind,     \* "dir" | "file" | "missing": what os.path.isdir/isfile see
    output_dir,     \* process_input's output_dir
    listing,        \* os.listdir(input_path), in the order the OS returns it
    pdfs,           \* path -> document, for every file that exists under a pdf name
    write_fault,    \* "none" | "open" | "write": how open()/f.write() of an output fails
    \* ---- the file system and the resources the program changes
    files,          \* output path -> content of the file there
    dirs,           \* directories created by os.makedirs
    handles,        \* paths whose fitz document handle is open and unreleased
    \* ---- process_input
    pc,             \* position in the program
    branch,         \* which branch of process_input is running
    idx,            \* position of the for loop in listing
    in_pdf,         \* argument input_path of the current extract_text_from_pdf call
    out_txt,        \* argument output_path of the current call
    extracted,      \* the dict process_input builds
    \* ---- extract_text_from_pdf
    doc,            \* the handle bound to local doc (<<>> when unbound)
    results,        \* local results
    page_num,       \* pages the loop has finished
    page,           \* local page
    ret,            \* the value the call returns
    \* ---- history
    calls,          \* the paths passed to extract_text_from_pdf, in call order
    classified,     \* page numbers of the current call given to is_scanned_page
    classification, \* outcome of the last is_scanned_page: "Scanned" | "NativeText"
    attempted,      \* the current call reached open(output_path, "w")
    run,            \* "first" | "second": which invocation of process_input
    first_files,    \* files when the first invocation ended
    first_outcome   \* how the first invocation ended, and its mapping

env_vars == <<input_path, input_kind, output_dir, listing, pdfs, write_fault>>
fs_vars == <<files, dirs, handles>>
batch_vars == <<branch, idx, in_pdf, out_txt, extracted>>
doc_vars == <<doc, results, page_num, page, ret>>
hist_vars == <<calls, classified, classification, attempted, run, first_files, first_outcome>>
vars == <<env_vars, fs_vars, pc, batch_vars, doc_vars, hist_vars>>

-----------------------------------------------------------------------------
\* Bounds of the model
MaxPages == 3       \* pages of the document under study
MaxEntries == 3     \* entries of the input directory
MaxPad == 2         \* whitespace characters around (and characters beyond) the threshold

\* def is_scanned_page(page, text_threshold: int = 30)
text_threshold == 30

-----------------------------------------------------------------------------
\* Strings

Rep(c, n) == [i \in 1..n |-> c]

\* the characters str.strip() removes
Whitespace == {" ", "\t", "\n", "\r", "\f"}

RECURSIVE LStrip(_)
LStrip(s) == IF s # <<>> /\ Head(s) \in Whitespace THEN LStrip(Tail(s)) ELSE s

RECURSIVE RStrip(_)
RStrip(s) ==
    IF s # <<>> /\ s[Len(s)] \in Whitespace THEN RStrip(SubSeq(s, 1, Len(s) - 1)) ELSE s

\* str.strip()
Strip(s) == RStrip(LStrip(s))

LowerChar(c) ==
    CASE c = "P" -> "p"
      [] c = "D" -> "d"
      [] c = "F" -> "f"
      [] c = "A" -> "a"
      [] c = "B" -> "b"
      [] c = "N" -> "n"
      [] c = "T" -> "t"
      [] c = "X" -> "x"
      [] OTHER -> c

\* str.lower()
Lower(s) == [i \in 1..Len(s) |-> LowerChar(s[i])]

\* str.endswith(suffix)
EndsWith(s, suffix) ==
    /\ Len(s) >= Len(suffix)
    /\ SubSeq(s, Len(s) - Len(suffix) + 1, Len(s)) = suffix

\* sep.join(parts)
RECURSIVE Join(_, _)
Join(sep, parts) ==
    IF parts = <<>> THEN <<>>
    ELSE IF Len(parts) = 1 THEN parts[1]
    ELSE parts[1] \o sep \o Join(sep, Tail(parts))

\* index of the last occurrence of c in s, 0 when there is none (str.rfind + 1)
LastIndex(s, c) ==
    LET at == {i \in 1..Len(s) : s[i] = c}
    IN IF at = {} THEN 0 ELSE CHOOSE i \in at : \A j \in at : j <= i

\* os.path.basename
Basename(p) == SubSeq(p, LastIndex(p, "/") + 1, Len(p))

RECURSIVE RStripSlash(_)
RStripSlash(s) ==
    IF s # <<>> /\ s[Len(s)] = "/" THEN RStripSlash(SubSeq(s, 1, Len(s) - 1)) ELSE s

\* os.path.dirname
Dirname(p) ==
    LET head == SubSeq(p, 1, LastIndex(p, "/"))
    IN IF head # <<>> /\ head # Rep("/", Len(head)) THEN RStripSlash(head) ELSE head

\* os.path.join(a, b)
PathJoin(a, b) ==
    IF b # <<>> /\ Head(b) = "/" THEN b
    ELSE IF a = <<>> \/ a[Len(a)] = "/" THEN a \o b
    ELSE a \o <<"/">> \o b

\* os.path.splitext(p)[0]: the extension starts at the last dot of the last
\* component, unless only dots precede it there
SplitExtRoot(p) ==
    LET sepIndex == LastIndex(p, "/")
        dotIndex == LastIndex(p, ".")
    IN IF dotIndex > sepIndex
          /\ \E i \in (sepIndex + 1)..(dotIndex - 1) : p[i] # "."
       THEN SubSeq(p, 1, dotIndex - 1)
       ELSE p

PdfSuffix == <<".", "p", "d", "f">>
TxtSuffix == <<".", "t", "x", "t">>
PageSep == <<"\n", "\n">>

\* fname.lower().endswith(".pdf")
IsPdfName(name) == EndsWith(Lower(name), PdfSuffix)

\* os.path.join(output_dir, os.path.splitext(fname)[0] + ".txt")
OutTxt(fname) == PathJoin(output_dir, SplitExtRoot(fname) \o TxtSuffix)

-----------------------------------------------------------------------------
\* Pages and documents as the PDF reader and the OCR engine present them

\* A page: native is page.get_text("text"); ocr is the token table
\* pytesseract.image_to_data yields for its image; fault names the call that
\* raises on it: "load" doc.load_page, "raster" page.get_pixmap, "ocr"
\* pytesseract.image_to_data, "none" nothing.
MkPage(native, ocr, fault) == [native |-> native, ocr |-> ocr, fault |-> fault]

Token(text, conf) == [text |-> text, conf |-> conf]

NoPage == MkPage(<<>>, <<>>, "none")
NativePage == MkPage(Rep("n", text_threshold) \o <<"\n">>, <<>>, "none")
ScanPage ==
    MkPage(<<>>, <<Token(<<"o">>, 90), Token(<<" ">>, -1), Token(<<"k", " ">>, 80)>>, "none")
BlankPage == MkPage(<<" ">>, <<Token(<<>>, -1)>>, "none")
RasterFailPage == MkPage(<<>>, <<>>, "raster")
OcrFailPage == MkPage(<<"\n">>, <<>>, "ocr")
LoadFailPage == MkPage(<<>>, <<>>, "load")

PageKinds == {NativePage, ScanPage, BlankPage, RasterFailPage, OcrFailPage, LoadFailPage}

\* whitespace padding of k characters
Pad(k) == [i \in 1..k |-> CASE i % 3 = 1 -> " " [] i % 3 = 2 -> "\n" [] OTHER -> "\t"]

\* n characters that begin and end with a non-whitespace character
Core(n, inner) == [i \in 1..n |-> IF inner /\ i = 2 /\ n >= 3 THEN " " ELSE "n"]

\* a page whose native text has n characters between lead and trail padding
BoundaryPage(lead, n, trail, inner) ==
    MkPage(Pad(lead) \o Core(n, inner) \o Pad(trail), <<Token(<<"o">>, 90)>>, "none")

MkDoc(opens, pages) == [opens |-> opens, pages |-> pages]

Unopenable == MkDoc(FALSE, <<>>)

SeqsUpTo(S, k) == UNION {[1..n -> S] : n \in 0..k}

\* the documents of the document under study
StudyDocs == {Unopenable} \cup {MkDoc(TRUE, ps) : ps \in SeqsUpTo(PageKinds, MaxPages)}

\* the documents of a directory's entries
EntryDocs ==
    {Unopenable, MkDoc(TRUE, <<NativePage>>), MkDoc(TRUE, <<ScanPage>>),
     MkDoc(TRUE, <<BlankPage, LoadFailPage>>)}

BoundaryDocs ==
    {MkDoc(TRUE, <<BoundaryPage(lead, n, trail, inner)>>) :
        lead \in 0..MaxPad, n \in 0..(text_threshold + MaxPad),
        trail \in 0..MaxPad, inner \in BOOLEAN}

InDir == <<"i", "n">>
OutDir == <<"o", "u", "t">>
NameA == <<"a", ".", "p", "d", "f">>
NameAUpper == <<"a", ".", "P", "D", "F">>
NameB == <<"b", ".", "p", "d", "f">>
NameN == <<"n", ".", "t", "x", "t">>
DirNames == {NameA, NameAUpper, NameB, NameN}

Range(s) == {s[i] : i \in DOMAIN s}

\* directory listings: no name twice, in any order
Listings ==
    {l \in SeqsUpTo(DirNames, MaxEntries) : Cardinality(Range(l)) = Len(l)}

\* (output_dir, write_fault)
Conditions == {<<OutDir, "none">>, <<OutDir, "open">>, <<OutDir, "write">>, <<<<>>, "none">>}

-----------------------------------------------------------------------------
\* is_scanned_page with the comparison written <= instead of <
is_scanned_page_Lte(p) == Len(Strip(p.native)) <= text_threshold

\* is_scanned_page(page)
is_scanned_page(p) == Len(Strip(p.native)) < text_threshold

RECURSIVE SumConf(_)
SumConf(toks) == IF toks = <<>> THEN 0 ELSE Head(toks).conf + SumConf(Tail(toks))

KeepToken(t) == Strip(t.text) # <<>>

\* ocr_image(image, lang): the text and the average confidence, the latter as
\* the fraction <<sum, count>>
ocr_image(data) ==
    LET kept == SelectSeq(data, KeepToken)
        texts == [i \in 1..Len(kept) |-> Strip(kept[i].text)]
    IN [text |-> Join(<<" ">>, texts),
        conf |-> IF Len(kept) = 0 THEN <<0, 1>> ELSE <<SumConf(kept), Len(kept)>>]

\* the elif without its os.path.isfile test
IsSingleFile_NoIsFile == IsPdfName(input_path)

\* os.path.isfile(input_path) and input_path.lower().endswith(".pdf")
IsSingleFile == input_kind = "file" /\ IsPdfName(input_path)

-----------------------------------------------------------------------------
EmptyMap == <<>>

InitProgram ==
    /\ files = EmptyMap /\ dirs = {} /\ handles = {}
    /\ pc = "start" /\ branch = "none" /\ idx = 0
    /\ in_pdf = <<>> /\ out_txt = <<>> /\ extracted = EmptyMap
    /\ doc = <<>> /\ results = <<>> /\ page_num = 0 /\ page = NoPage /\ ret = <<>>
    /\ calls = <<>> /\ classified = {} /\ classification = "none"
    /\ attempted = FALSE /\ run = "first"
    /\ first_files = EmptyMap
    /\ first_outcome = [pc |-> "none", extracted |-> EmptyMap]

\* a single file: the document under study, or a page at the classification boundary
InitFile ==
    /\ \E name \in {NameA, NameAUpper} : input_path = PathJoin(InDir, name)
    /\ input_kind = "file"
    /\ listing = <<>>
    /\ \E d \in StudyDocs \cup BoundaryDocs : pdfs = (input_path :> d)
    /\ \E c \in Conditions : output_dir = c[1] /\ write_fault = c[2]

\* a directory of entries
InitDir ==
    /\ input_path = InDir
    /\ input_kind = "dir"
    /\ listing \in Listings
    /\ LET names == {n \in Range(listing) : n # NameN}
       IN \E ds \in [names -> EntryDocs] :
            pdfs = [p \in {PathJoin(InDir, n) : n \in names} |-> ds[Basename(p)]]
    /\ \E c \in Conditions : output_dir = c[1] /\ write_fault = c[2]

\* neither a directory nor an existing pdf file
InitOther ==
    /\ \E k \in {"file", "missing"}, name \in DirNames :
         /\ input_kind = k
         /\ input_path = PathJoin(InDir, name)
         /\ ~(k = "file" /\ name # NameN)
         /\ pdfs = IF k = "file" THEN (input_path :> Unopenable) ELSE EmptyMap
    /\ listing = <<>>
    /\ \E c \in Conditions : output_dir = c[1] /\ write_fault = c[2]

Init == (InitFile \/ InitDir \/ InitOther) /\ InitProgram

-----------------------------------------------------------------------------
\* process_input

\* the call text = extract_text_from_pdf(path, out, lang): fresh locals
Call(path, out) ==
    /\ in_pdf' = path
    /\ out_txt' = out
    /\ calls' = Append(calls, path)
    /\ doc' = <<>> /\ results' = <<>> /\ page_num' = 0 /\ page' = NoPage /\ ret' = <<>>
    /\ classified' = {} /\ attempted' = FALSE
    /\ pc' = "open"

\* extracted = {}; if os.path.isdir(input_path): for fname in os.listdir(input_path)
ProcessInputDir ==
    /\ pc = "start"
    /\ input_kind = "dir"
    /\ branch' = "dir" /\ idx' = 1 /\ extracted' = EmptyMap
    /\ pc' = "listdir"
    /\ UNCHANGED <<env_vars, fs_vars, in_pdf, out_txt, doc_vars, hist_vars>>

\* the loop body for an entry that passes fname.lower().endswith(".pdf")
ListDirCall ==
    /\ pc = "listdir"
    /\ idx <= Len(listing)
    /\ IsPdfName(listing[idx])
    /\ Call(PathJoin(input_path, listing[idx]), OutTxt(listing[idx]))
    /\ UNCHANGED <<env_vars, fs_vars, branch, idx, extracted,
                   classification, run, first_files, first_outcome>>

\* the loop body for any other entry
ListDirSkip ==
    /\ pc = "listdir"
    /\ idx <= Len(listing)
    /\ ~IsPdfName(listing[idx])
    /\ idx' = idx + 1
    /\ UNCHANGED <<env_vars, fs_vars, pc, branch, in_pdf, out_txt, extracted,
                   doc_vars, hist_vars>>

\* the listing is exhausted: return extracted
ListDirEnd ==
    /\ pc = "listdir"
    /\ idx > Len(listing)
    /\ pc' = "done"
    /\ UNCHANGED <<env_vars, fs_vars, batch_vars, doc_vars, hist_vars>>

\* elif os.path.isfile(input_path) and input_path.lower().endswith(".pdf")
ProcessInputFile ==
    /\ pc = "start"
    /\ input_kind # "dir"
    /\ IsSingleFile
    /\ branch' = "file" /\ extracted' = EmptyMap
    /\ Call(input_path, OutTxt(Basename(input_path)))
    /\ UNCHANGED <<env_vars, fs_vars, idx, classification, run, first_files, first_outcome>>

\* else: logger.error("Invalid input ..."); return extracted
ProcessInputInvalid ==
    /\ pc = "start"
    /\ input_kind # "dir"
    /\ ~IsSingleFile
    /\ branch' = "invalid" /\ extracted' = EmptyMap
    /\ pc' = "done"
    /\ UNCHANGED <<env_vars, fs_vars, idx, in_pdf, out_txt, doc_vars, hist_vars>>

-----------------------------------------------------------------------------
\* extract_text_from_pdf

\* try: doc = fitz.open(input_path)  except Exception: return ""
OpenDocument ==
    /\ pc = "open"
    /\ IF in_pdf \in DOMAIN pdfs /\ pdfs[in_pdf].opens
       THEN /\ doc' = in_pdf
            /\ handles' = handles \cup {in_pdf}
            /\ pc' = "makedirs"
            /\ ret' = ret
       ELSE /\ ret' = <<>>
            /\ pc' = "return"
            /\ UNCHANGED <<doc, handles>>
    /\ UNCHANGED <<env_vars, files, dirs, batch_vars, results, page_num, page, hist_vars>>

\* os.makedirs(os.path.dirname(output_path), exist_ok=True); results = []
\* os.makedirs("") raises FileNotFoundError, which nothing here catches
MakeDirs ==
    /\ pc = "makedirs"
    /\ IF Dirname(out_txt) = <<>>
       THEN /\ pc' = "raised"
            /\ UNCHANGED <<dirs, results>>
       ELSE /\ dirs' = dirs \cup {Dirname(out_txt)}
            /\ results' = <<>>
            /\ pc' = "pages"
    /\ UNCHANGED <<env_vars, files, handles, batch_vars, doc, page_num, page, ret, hist_vars>>

\* for page_num in range(len(doc)): page = doc.load_page(page_num)
\* load_page stands before the try: what it raises leaves the function
LoadPage ==
    /\ pc = "pages"
    /\ page_num < Len(pdfs[doc].pages)
    /\ LET p == pdfs[doc].pages[page_num + 1]
       IN IF p.fault = "load"
          THEN pc' = "raised" /\ page' = page
          ELSE pc' = "extract" /\ page' = p
    /\ UNCHANGED <<env_vars, fs_vars, batch_vars, doc, results, page_num, ret, hist_vars>>

\* the loop body without its try/except: what the extraction raises leaves
\* the function
ExtractPage_Abort ==
    /\ pc = "extract"
    /\ classified' = classified \cup {page_num + 1}
    /\ IF is_scanned_page(page)
       THEN /\ classification' = "Scanned"
            /\ IF page.fault \in {"raster", "ocr"}
               THEN results' = results /\ page_num' = page_num /\ pc' = "raised"
               ELSE /\ results' = Append(results, ocr_image(page.ocr).text)
                    /\ page_num' = page_num + 1 /\ pc' = "pages"
       ELSE /\ classification' = "NativeText"
            /\ results' = Append(results, page.native)
            /\ page_num' = page_num + 1 /\ pc' = "pages"
    /\ UNCHANGED <<env_vars, fs_vars, batch_vars, doc, page, ret,
                   calls, attempted, run, first_files, first_outcome>>

\* the try block of the loop body: classify, extract by OCR or natively,
\* results.append(text) (also when the text is blank: only a warning is
\* logged); except Exception: log, and the loop goes on to the next page
ExtractPage ==
    /\ pc = "extract"
    /\ classified' = classified \cup {page_num + 1}
    /\ IF is_scanned_page(page)
       THEN /\ classification' = "Scanned"
            /\ IF page.fault \in {"raster", "ocr"}
               THEN results' = results
               ELSE results' = Append(results, ocr_image(page.ocr).text)
       ELSE /\ classification' = "NativeText"
            /\ results' = Append(results, page.native)
    /\ page_num' = page_num + 1
    /\ pc' = "pages"
    /\ UNCHANGED <<env_vars, fs_vars, batch_vars, doc, page, ret,
                   calls, attempted, run, first_files, first_outcome>>

\* the write without its try/except: a failing open() or f.write() leaves the
\* function
WriteOutput_Raise ==
    /\ pc = "pages"
    /\ page_num = Len(pdfs[doc].pages)
    /\ attempted' = TRUE
    /\ LET full_text == Join(PageSep, results)
       IN /\ files' = CASE write_fault = "none" -> (out_txt :> full_text) @@ files
                        [] write_fault = "open" -> files
                        [] OTHER -> (out_txt :> <<>>) @@ files
          /\ ret' = IF write_fault = "none" THEN full_text ELSE ret
    /\ pc' = IF write_fault = "none" THEN "return" ELSE "raised"
    /\ UNCHANGED <<env_vars, dirs, handles, batch_vars, doc, results, page_num, page,
                   calls, classified, classification, run, first_files, first_outcome>>

\* the write with open(output_path, "a"): the text is appended to the file
WriteOutput_Append ==
    /\ pc = "pages"
    /\ page_num = Len(pdfs[doc].pages)
    /\ attempted' = TRUE
    /\ LET full_text == Join(PageSep, results)
           old == IF out_txt \in DOMAIN files THEN files[out_txt] ELSE <<>>
       IN /\ files' = CASE write_fault = "none" -> (out_txt :> (old \o full_text)) @@ files
                        [] write_fault = "open" -> files
                        [] OTHER -> (out_txt :> old) @@ files
          /\ ret' = full_text
    /\ pc' = "return"
    /\ UNCHANGED <<env_vars, dirs, handles, batch_vars, doc, results, page_num, page,
                   calls, classified, classification, run, first_files, first_outcome>>

\* full_text = "\n\n".join(results); try: with open(output_path, "w") as f:
\* f.write(full_text)  except Exception: log;  return full_text
\* open() failing leaves the file as it was; f.write failing leaves it truncated
WriteOutput ==
    /\ pc = "pages"
    /\ page_num = Len(pdfs[doc].pages)
    /\ attempted' = TRUE
    /\ LET full_text == Join(PageSep, results)
       IN /\ files' = CASE write_fault = "none" -> (out_txt :> full_text) @@ files
                        [] write_fault = "open" -> files
                        [] OTHER -> (out_txt :> <<>>) @@ files
          /\ ret' = full_text
    /\ pc' = "return"
    /\ UNCHANGED <<env_vars, dirs, handles, batch_vars, doc, results, page_num, page,
                   calls, classified, classification, run, first_files, first_outcome>>

\* the call returns: extracted[in_pdf] = text.  Local doc goes out of scope
\* without doc.close(): whether the handle is released is up to the garbage
\* collector.
Return ==
    /\ pc = "return"
    /\ extracted' = (in_pdf :> ret) @@ extracted
    /\ doc' = <<>>
    /\ \E released \in BOOLEAN :
         handles' = IF released THEN handles \ {doc} ELSE handles
    /\ IF branch = "dir"
       THEN idx' = idx + 1 /\ pc' = "listdir"
       ELSE idx' = idx /\ pc' = "done"
    /\ UNCHANGED <<env_vars, files, dirs, branch, in_pdf, out_txt,
                   results, page_num, page, ret, hist_vars>>

\* main: results = process_input(args.input, args.output, args.language), once
\* more on the same input and output directory
Rerun ==
    /\ pc \in {"done", "raised"}
    /\ run = "first"
    /\ run' = "second"
    /\ first_files' = files
    /\ first_outcome' = [pc |-> pc, extracted |-> IF pc = "done" THEN extracted ELSE EmptyMap]
    /\ pc' = "start"
    /\ branch' = "none" /\ idx' = 0 /\ in_pdf' = <<>> /\ out_txt' = <<>>
    /\ extracted' = EmptyMap
    /\ doc' = <<>> /\ results' = <<>> /\ page_num' = 0 /\ page' = NoPage /\ ret' = <<>>
    /\ calls' = <<>> /\ classified' = {} /\ classification' = "none" /\ attempted' = FALSE
    /\ UNCHANGED <<env_vars, fs_vars>>

Next ==
    \/ ProcessInputDir
    \/ ListDirCall
    \/ ListDirSkip
    \/ ListDirEnd
    \/ ProcessInputFile
    \/ ProcessInputInvalid
    \/ OpenDocument
    \/ MakeDirs
    \/ LoadPage
    \/ ExtractPage
    \/ WriteOutput
    \/ Return
    \/ Rerun

Spec == Init /\ [][Next]_vars

-----------------------------------------------------------------------------
\* Properties

\* the extraction of page p raises inside the try block
PageRaises(p) == is_scanned_page(p) /\ p.fault \in {"raster", "ocr"}

\* the text page p yields when its extraction does not raise
PageText(p) == IF is_scanned_page(p) THEN ocr_image(p.ocr).text ELSE p.native

Extracts(p) == ~PageRaises(p)

\* the texts of the pages among the first k that did not raise, in page order
ExtractedTexts(pages, k) ==
    LET ok == SelectSeq(SubSeq(pages, 1, k), Extracts)
    IN [i \in 1..Len(ok) |-> PageText(ok[i])]

NoLoadFault(pages) == \A i \in 1..Len(pages) : pages[i].fault # "load"

\* length of t between its first and its last non-whitespace character
TrimmedLen(t) ==
    LET nonws == {i \in 1..Len(t) : t[i] \notin Whitespace}
    IN IF nonws = {} THEN 0
       ELSE (CHOOSE i \in nonws : \A j \in nonws : j <= i)
            - (CHOOSE i \in nonws : \A j \in nonws : i <= j) + 1

\* p ends in ".pdf" in any mix of cases
HasPdfExtension(p) ==
    /\ Len(p) >= 4
    /\ p[Len(p) - 3] = "."
    /\ p[Len(p) - 2] \in {"p", "P"}
    /\ p[Len(p) - 1] \in {"d", "D"}
    /\ p[Len(p)] \in {"f", "F"}

\* the pdf entries of the listing as paths, in listing order
PdfEntries ==
    LET names == SelectSeq(listing, HasPdfExtension)
    IN [i \in 1..Len(names) |-> PathJoin(input_path, names[i])]

\* C1: when extract_text_from_pdf returns for a document that opened, the
\* text is the "\n\n"-join of one text per page, in page order, a page whose
\* extraction raised giving the empty string at its position.
C1_JoinOfAllPages ==
    (pc = "return" /\ doc # <<>>) =>
        LET pages == pdfs[doc].pages
        IN ret = Join(PageSep, [i \in 1..Len(pages) |->
                        IF PageRaises(pages[i]) THEN <<>> ELSE PageText(pages[i])])

\* C2: when process_input returns from a directory, the mapping has no key
\* for an entry that could not be opened.
C2_UnopenableExcluded ==
    (pc = "done" /\ branch = "dir") =>
        \A p \in DOMAIN extracted : p \in DOMAIN pdfs /\ pdfs[p].opens

\* C3: process_input on a directory never ends by an exception, and when it
\* ends every pdf entry of the listing was passed to extract_text_from_pdf.
\* Stated here for an output directory that can be created, so that what
\* refutes it is a failure inside one document.
C3_BatchNeverStops ==
    (pc \in {"done", "raised"} /\ branch = "dir" /\ output_dir # <<>>) =>
        pc = "done" /\ calls = PdfEntries

C5_ClassificationBoundary ==
    (pc \in {"pages", "return"} /\ page_num >= 1) =>
        /\ classification = IF TrimmedLen(page.native) < text_threshold
                            THEN "Scanned" ELSE "NativeText"
        /\ classification = "NativeText" => results[Len(results)] = page.native
        /\ (classification = "Scanned" /\ page.fault = "none") =>
              results[Len(results)] = ocr_image(page.ocr).text

\* a padded page of exactly the threshold was classified NativeText
C5_Witness ==
    /\ pc = "pages" /\ page_num = 1
    /\ TrimmedLen(page.native) = text_threshold
    /\ Len(page.native) = text_threshold + 2 * MaxPad
    /\ classification = "NativeText"

\* a padded page one short of the threshold was classified Scanned
C5_WitnessBelow ==
    /\ pc = "pages" /\ page_num = 1
    /\ TrimmedLen(page.native) = text_threshold - 1
    /\ Len(page.native) > text_threshold
    /\ classification = "Scanned"

\* C6: outside a call of extract_text_from_pdf no document handle is open.
C6_HandlesReleased ==
    pc \in {"start", "listdir", "done", "raised"} => handles = {}

\* C7: when process_input returns and no write failed, every document that
\* opened has the file <output_dir>/<basename>.txt, holding the text the
\* mapping has for it.
C7_OwnOutputFile ==
    (pc = "done" /\ write_fault = "none") =>
        \A p \in DOMAIN extracted :
            (p \in DOMAIN pdfs /\ pdfs[p].opens) =>
                /\ OutTxt(Basename(p)) \in DOMAIN files
                /\ files[OutTxt(Basename(p))] = extracted[p]

\* C8: when the write of the output fails, the call still returns the join of
\* the texts of its pages, nothing is raised, and process_input records that
\* text under the document's path.
C8_WriteFailureKeepsText ==
    (write_fault # "none" /\ attempted) =>
        LET pages == pdfs[in_pdf].pages
            text == Join(PageSep, ExtractedTexts(pages, Len(pages)))
        IN /\ pc \in {"return", "listdir", "done"}
           /\ pc = "return" => ret = text
           /\ pc \in {"listdir", "done"} =>
                in_pdf \in DOMAIN extracted /\ extracted[in_pdf] = text

\* the write failed, no file exists, and the mapping has the text
C8_Witness ==
    /\ pc = "done" /\ attempted /\ write_fault = "open"
    /\ out_txt \notin DOMAIN files
    /\ in_pdf \in DOMAIN extracted
    /\ extracted[in_pdf] = NativePage.native \o PageSep \o <<"o", " ", "k">>

\* C9: for an input that is neither a directory nor an existing file with a
\* pdf name, process_input only returns the empty mapping: it raises nothing,
\* calls extract_text_from_pdf never, and creates no directory and no file.
C9_InvalidInputContained ==
    (input_kind # "dir" /\ ~(input_kind = "file" /\ HasPdfExtension(input_path))) =>
        /\ pc \in {"start", "done"}
        /\ calls = <<>>
        /\ DOMAIN extracted = {}
        /\ DOMAIN files = {} /\ dirs = {} /\ handles = {}

\* a pdf name that does not exist was rejected
C9_Witness ==
    /\ pc = "done" /\ branch = "invalid"
    /\ input_kind = "missing" /\ HasPdfExtension(input_path)
    /\ DOMAIN extracted = {}

\* C10: when the second run of process_input on the same input ends, every
\* file holds what it held after the first run, and the run ended as the
\* first did, with an equal mapping.
C10_Idempotent ==
    (run = "second" /\ pc \in {"done", "raised"}) =>
        /\ DOMAIN files = DOMAIN first_files
        /\ \A f \in DOMAIN files : files[f] = first_files[f]
        /\ first_outcome.pc = pc
        /\ pc = "done" =>
             /\ DOMAIN extracted = DOMAIN first_outcome.extracted
             /\ \A p \in DOMAIN extracted : extracted[p] = first_outcome.extracted[p]

\* the second run rewrote a non-empty file and returned two documents
C10_Witness ==
    /\ run = "second" /\ pc = "done"
    /\ Cardinality(DOMAIN extracted) >= 2
    /\ \E f \in DOMAIN files : files[f] # <<>>

====
